---- MODULE Spec2Model ----
(***************************************************************************)
(* Task Management API (src/main.py): the users and tasks tables, and the  *)
(* FastAPI handlers that run against them, one store session per request.  *)
(* A handler is a sequence of round trips to the store; requests of        *)
(* different workers interleave between round trips.  The store is the     *)
(* MySQL/InnoDB engine named by DATABASE_URL, at its default isolation     *)
(* level (REPEATABLE READ): a transaction's writes become visible to       *)
(* others at COMMIT, the plain SELECTs of one transaction read the view    *)
(* its first SELECT established, writes read and check the latest          *)
(* committed rows and wait for rows another transaction holds locked, and  *)
(* the schema's UNIQUE and FOREIGN KEY constraints are checked by every    *)
(* write.  An exception no handler catches is answered with status 500.    *)
(* The clock that datetime.utcnow() reads does not run backwards.          *)
(***************************************************************************)
EXTENDS Integers, FiniteSets, Sequences, TLC

(* ------------------------------ bounds --------------------------------- *)
MaxUserId == 2
MaxTaskId == 2
MaxTime == 1

\* the requests that are served, each by a worker of its own
Procs == {1, 2}
DefaultLimit == 100

(* ------------------------- request inputs ------------------------------ *)
NULL == "NULL"
Usernames == {"alice", "bob"}
Emails == {"alice@x.com", "bob@x.com"}
FullNames == {"Alice A"}
UserIds == 1..MaxUserId
TaskIds == 1..MaxTaskId

\* a body or query string that sets no optional field
EmptyData == [f \in {} |-> NULL]

\* skip and limit of the list requests
Pages == {<<0, DefaultLimit>>, <<1, 1>>, <<-1, DefaultLimit>>, <<0, -1>>}

\* the optional query parameters of read_tasks that were supplied
TaskFilters ==
    { EmptyData,
      "status" :> "completed",
      "status" :> "",
      "owner_id" :> 0,
      ("status" :> "pending") @@ ("priority" :> "medium"),
      ("priority" :> "medium") @@ ("owner_id" :> 2) }

\* the read_tasks requests: every filter on the default page, and the other
\* pages without a filter
TaskQueries ==
    {[params |-> f, skip |-> 0, limit |-> DefaultLimit] : f \in TaskFilters}
    \cup {[params |-> EmptyData, skip |-> pg[1], limit |-> pg[2]] : pg \in Pages}

\* UserCreate bodies (all three fields are required)
UserCreate == [username : Usernames, email : Emails, full_name : FullNames]

\* UserUpdate bodies: the fields that were set in the request
UserUpdate ==
    { EmptyData,
      "username" :> "bob",
      "email" :> "bob@x.com",
      ("full_name" :> "Bob B") @@ ("is_active" :> FALSE) }

\* TaskCreate bodies: title and owner_id are required, the rest optional
TaskCreateData ==
    { "title" :> "Write spec",
      ("title" :> "Write spec") @@ ("status" :> "completed"),
      ("title" :> "Write spec") @@ ("priority" :> "high") }

\* TaskUpdate bodies: the fields that were set in the request
TaskUpdate ==
    { EmptyData,
      "status" :> "completed",
      ("title" :> "Review") @@ ("priority" :> "high"),
      ("description" :> "text") @@ ("due_date" :> "2027-01-01") }

(* ------------------------------- state --------------------------------- *)
VARIABLES
    users,        \* committed rows of table users
    tasks,        \* committed rows of table tasks
    nextUserId,   \* AUTO_INCREMENT counter of users.id
    nextTaskId,   \* AUTO_INCREMENT counter of tasks.id
    now,          \* the clock datetime.utcnow() reads
    pc,           \* per request: the handler step it is about to run
    req,          \* per request: the request it serves
    loaded,       \* per request: the ORM object the handler holds (db_user / db_task)
    view,         \* per request: the read view of its transaction
    delset,       \* per request: the task ids its bulk DELETE removed
    resp,         \* per request: the response of the finished request
    session       \* per request: its store session, "open" or "closed"

vars == <<users, tasks, nextUserId, nextTaskId, now, pc, req, loaded, view,
          delset, resp, session>>

store == <<users, tasks>>

NoReq == [op |-> "none"]
NoRow == [id |-> 0]
NoView == [users |-> {}, tasks |-> {}]
NoResp == [status |-> 0, body |-> [detail |-> NULL]]

(* ------------------------- schema and store ---------------------------- *)
UserFields == {"id", "username", "email", "full_name", "created_at", "is_active"}
TaskFields == {"id", "title", "description", "status", "priority", "created_at",
               "updated_at", "due_date", "owner_id"}

Ids(table) == {r.id : r \in table}

\* Query(...).filter(X.id == id).first()
ById(table, id) == {r \in table : r.id = id}
First(rows) == CHOOSE r \in rows : TRUE

UniqueOkUnchecked(table, row) == TRUE

\* users.username and users.email are UNIQUE
UniqueOk(table, row) ==
    \A u \in table : u.id # row.id =>
        /\ u.username # row.username
        /\ u.email # row.email

ForeignKeyOkUnchecked(table, row) == TRUE

\* tasks.owner_id is a FOREIGN KEY into users.id
ForeignKeyOk(table, row) == \E u \in table : u.id = row.owner_id

\* every new row numbered 1 instead of by the AUTO_INCREMENT counter
NewUserIdOne(id, data, t) ==
    [id |-> 1, username |-> data.username, email |-> data.email,
     full_name |-> data.full_name, created_at |-> t, is_active |-> TRUE]

\* the column defaults of a new users row
NewUser(id, data, t) ==
    [id |-> id, username |-> data.username, email |-> data.email,
     full_name |-> data.full_name, created_at |-> t, is_active |-> TRUE]

TaskBaseDefaultNone ==
    [description |-> NULL, status |-> NULL, priority |-> NULL, due_date |-> NULL]

\* TaskBase: defaults of the optional request fields
TaskBaseDefault ==
    [description |-> NULL, status |-> "pending", priority |-> "medium",
     due_date |-> NULL]

TaskDict(data) ==
    [f \in {"title", "description", "status", "priority", "due_date"} |->
        IF f \in DOMAIN data THEN data[f] ELSE TaskBaseDefault[f]]

\* the column defaults of a new tasks row
NewTask(id, d, owner_id, t) ==
    [id |-> id, title |-> d.title, description |-> d.description,
     status |-> d.status, priority |-> d.priority, created_at |-> t,
     updated_at |-> t, due_date |-> d.due_date, owner_id |-> owner_id]

\* setattr(obj, field, value) for every field of update_data; the unit of
\* work writes the attributes whose value differs from the loaded one
Changed(obj, data) == {f \in DOMAIN data : data[f] # obj[f]}

SetAttrsUnsetToNull(row, data, fields) ==
    [f \in DOMAIN row |->
        IF f \in fields THEN data[f]
        ELSE IF f = "description" /\ f \notin DOMAIN data THEN NULL ELSE row[f]]

SetAttrs(row, data, fields) ==
    [f \in DOMAIN row |-> IF f \in fields THEN data[f] ELSE row[f]]

\* an error response: {"detail": ...}; for an exception that no handler
\* caught, detail names the exception
HTTPException(code, detail) == [status |-> code, body |-> [detail |-> detail]]
ServerError(kind) == [status |-> 500, body |-> [detail |-> kind]]
Ok(body) == [status |-> 200, body |-> body]

\* the body of a list response: its rows, in order
Items(rows) == [items |-> rows]

\* rows of tasks that the uncommitted bulk DELETE of another request holds locked
LockedBy(p) ==
    UNION {delset[q] : q \in {r \in Procs \ {p} : pc[r] = "delete_user_commit"}}

\* rows in primary-key order, as a full scan of the table returns them
RECURSIVE Rows(_)
Rows(table) ==
    IF table = {} THEN <<>>
    ELSE LET r == CHOOSE x \in table : \A y \in table : x.id <= y.id
         IN  <<r>> \o Rows(table \ {r})

Min(a, b) == IF a <= b THEN a ELSE b

\* .offset(skip).limit(limit)
Page(rows, skip, limit) == SubSeq(rows, skip + 1, Min(Len(rows), skip + limit))

\* db.refresh(obj): reload the row by its primary key
Refresh(obj, table) ==
    IF ById(table, obj.id) = {}
    THEN ServerError("InvalidRequestError")
    ELSE Ok(First(ById(table, obj.id)))

\* a request arrives: get_db opens its session
Begin(p, r) ==
    /\ pc[p] = "idle"
    /\ session' = [session EXCEPT ![p] = "open"]
    /\ req' = [req EXCEPT ![p] = r]

\* the handler goes on to its next round trip
Goto(p, next) ==
    /\ pc' = [pc EXCEPT ![p] = next]
    /\ UNCHANGED resp

\* the handler raises or returns: the response is fixed
Raise(p, r) ==
    /\ pc' = [pc EXCEPT ![p] = "done"]
    /\ resp' = [resp EXCEPT ![p] = r]

(* ------------------------------- Init ---------------------------------- *)
\* The tables outlive the service (create_all only adds missing tables): it
\* starts on the rows that earlier requests committed.
Alice == NewUser(1, [username |-> "alice", email |-> "alice@x.com",
                     full_name |-> "Alice A"], 0)
Bob == NewUser(2, [username |-> "bob", email |-> "bob@x.com",
                   full_name |-> "Bob B"], 0)
Task1 == NewTask(1, TaskDict("title" :> "Write spec"), 1, 0)
Task2 == NewTask(2, TaskDict(("title" :> "Write spec") @@ ("status" :> "completed")), 2, 0)

Stored ==
    { [users |-> {}, tasks |-> {}],
      [users |-> {Alice}, tasks |-> {}],
      [users |-> {Alice, Bob}, tasks |-> {Task1}],
      [users |-> {Alice, Bob}, tasks |-> {Task1, Task2}] }

Init ==
    /\ \E s \in Stored :
        /\ users = s.users
        /\ tasks = s.tasks
        /\ nextUserId = Cardinality(s.users) + 1
        /\ nextTaskId = Cardinality(s.tasks) + 1
    /\ now = 0
    /\ pc = [p \in Procs |-> "idle"]
    /\ req = [p \in Procs |-> NoReq]
    /\ loaded = [p \in Procs |-> NoRow]
    /\ view = [p \in Procs |-> NoView]
    /\ delset = [p \in Procs |-> {}]
    /\ resp = [p \in Procs |-> NoResp]
    /\ session = [p \in Procs |-> "closed"]

Tick ==
    /\ now < MaxTime
    /\ now' = now + 1
    /\ UNCHANGED <<users, tasks, nextUserId, nextTaskId, pc, req, loaded, view,
                   delset, resp, session>>

\* db.close() after the yield, without the try/finally around it
get_db_close_unless_raised(p) ==
    /\ pc[p] = "done"
    /\ pc' = [pc EXCEPT ![p] = "closed"]
    /\ req' = [req EXCEPT ![p] = NoReq]
    /\ loaded' = [loaded EXCEPT ![p] = NoRow]
    /\ view' = [view EXCEPT ![p] = NoView]
    /\ delset' = [delset EXCEPT ![p] = {}]
    /\ resp' = [resp EXCEPT ![p] = NoResp]
    /\ session' = [session EXCEPT ![p] = IF resp[p].status = 200
                                         THEN "closed" ELSE "open"]
    /\ UNCHANGED <<users, tasks, nextUserId, nextTaskId, now>>

\* get_db: finally db.close()
get_db_close(p) ==
    /\ pc[p] = "done"
    /\ pc' = [pc EXCEPT ![p] = "closed"]
    /\ req' = [req EXCEPT ![p] = NoReq]
    /\ loaded' = [loaded EXCEPT ![p] = NoRow]
    /\ view' = [view EXCEPT ![p] = NoView]
    /\ delset' = [delset EXCEPT ![p] = {}]
    /\ resp' = [resp EXCEPT ![p] = NoResp]
    /\ session' = [session EXCEPT ![p] = "closed"]
    /\ UNCHANGED <<users, tasks, nextUserId, nextTaskId, now>>

(* --------------------------- user handlers ----------------------------- *)
\* no more ids are handed out than the users table is bounded to
CanInsertUser(p) ==
    nextUserId + Cardinality({q \in Procs \ {p} : pc[q] = "create_user_commit"})
        <= MaxUserId

CanInsertTask(p) ==
    nextTaskId + Cardinality({q \in Procs \ {p} : pc[q] = "create_task_commit"})
        <= MaxTaskId

RegisteredBoth(table, user) ==
    \E u \in table : u.username = user.username /\ u.email = user.email

\* create_user: (User.username == user.username) | (User.email == user.email)
Registered(table, user) ==
    \E u \in table : u.username = user.username \/ u.email = user.email

\* create_user: the existence check
create_user(p) ==
    \E user \in UserCreate :
        /\ Begin(p, [op |-> "create_user", user |-> user])
        /\ IF Registered(users, user)
           THEN Raise(p, HTTPException(400, "Username or email already registered"))
           ELSE /\ CanInsertUser(p)
                /\ Goto(p, "create_user_commit")
        /\ UNCHANGED <<users, tasks, nextUserId, nextTaskId, now, loaded, view, delset>>

\* create_user: db.add(db_user); db.commit()
create_user_commit(p) ==
    /\ pc[p] = "create_user_commit"
    /\ LET row == NewUser(nextUserId, req[p].user, now)
       IN  /\ nextUserId' = nextUserId + 1
           /\ IF UniqueOk(users, row)
              THEN /\ users' = users \cup {row}
                   /\ loaded' = [loaded EXCEPT ![p] = row]
                   /\ Goto(p, "create_user_refresh")
              ELSE /\ Raise(p, ServerError("IntegrityError"))
                   /\ UNCHANGED <<users, loaded>>
    /\ UNCHANGED <<tasks, nextTaskId, now, req, view, delset, session>>

\* db.refresh(db_user); return db_user
create_user_refresh(p) ==
    /\ pc[p] = "create_user_refresh"
    /\ Raise(p, Refresh(loaded[p], users))
    /\ UNCHANGED <<users, tasks, nextUserId, nextTaskId, now, req, loaded, view,
                   delset, session>>

\* read_users: db.query(User).offset(skip).limit(limit).all()
read_users(p) ==
    \E page \in Pages :
        /\ Begin(p, [op |-> "read_users", skip |-> page[1], limit |-> page[2]])
        /\ Raise(p, IF page[1] < 0 \/ page[2] < 0
                    THEN ServerError("ProgrammingError")
                    ELSE Ok(Items(Page(Rows(users), page[1], page[2]))))
        /\ UNCHANGED <<users, tasks, nextUserId, nextTaskId, now, loaded, view, delset>>

\* read_user
read_user(p) ==
    \E user_id \in UserIds :
        /\ Begin(p, [op |-> "read_user", user_id |-> user_id])
        /\ Raise(p, IF ById(users, user_id) = {}
                    THEN HTTPException(404, "User not found")
                    ELSE Ok(First(ById(users, user_id))))
        /\ UNCHANGED <<users, tasks, nextUserId, nextTaskId, now, loaded, view, delset>>

\* update_user: the lookup
update_user(p) ==
    \E user_id \in UserIds, user_update \in UserUpdate :
        /\ Begin(p, [op |-> "update_user", user_id |-> user_id,
                     update_data |-> user_update])
        /\ IF ById(users, user_id) = {}
           THEN /\ Raise(p, HTTPException(404, "User not found"))
                /\ UNCHANGED loaded
           ELSE /\ loaded' = [loaded EXCEPT ![p] = First(ById(users, user_id))]
                /\ Goto(p, "update_user_commit")
        /\ UNCHANGED <<users, tasks, nextUserId, nextTaskId, now, view, delset>>

\* update_user: the setattr loop and db.commit()
update_user_commit(p) ==
    /\ pc[p] = "update_user_commit"
    /\ LET data == req[p].update_data
           fields == Changed(loaded[p], data)
           cur == ById(users, loaded[p].id)
       IN  IF fields = {}
           THEN /\ Goto(p, "update_user_refresh")
                /\ UNCHANGED users
           ELSE IF cur = {}
           THEN /\ Raise(p, ServerError("StaleDataError"))
                /\ UNCHANGED users
           ELSE IF ~UniqueOk(users, SetAttrs(First(cur), data, fields))
           THEN /\ Raise(p, ServerError("IntegrityError"))
                /\ UNCHANGED users
           ELSE /\ users' = (users \ cur) \cup {SetAttrs(First(cur), data, fields)}
                /\ Goto(p, "update_user_refresh")
    /\ UNCHANGED <<tasks, nextUserId, nextTaskId, now, req, loaded, view, delset,
                   session>>

\* update_user: db.refresh(db_user); return db_user
update_user_refresh(p) ==
    /\ pc[p] = "update_user_refresh"
    /\ Raise(p, Refresh(loaded[p], users))
    /\ UNCHANGED <<users, tasks, nextUserId, nextTaskId, now, req, loaded, view,
                   delset, session>>

\* delete_user: the lookup, which opens the transaction's read view
delete_user(p) ==
    \E user_id \in UserIds :
        /\ Begin(p, [op |-> "delete_user", user_id |-> user_id])
        /\ IF ById(users, user_id) = {}
           THEN /\ Raise(p, HTTPException(404, "User not found"))
                /\ UNCHANGED view
           ELSE /\ view' = [view EXCEPT ![p] = [users |-> users, tasks |-> tasks]]
                /\ Goto(p, "delete_user_tasks")
        /\ UNCHANGED <<users, tasks, nextUserId, nextTaskId, now, loaded, delset>>

\* the bulk DELETE committed on its own
delete_user_tasks_autocommit(p) ==
    /\ pc[p] = "delete_user_tasks"
    /\ LET ids == {t.id : t \in {x \in tasks : x.owner_id = req[p].user_id}}
       IN  /\ delset' = [delset EXCEPT ![p] = ids]
           /\ tasks' = {t \in tasks : t.id \notin ids}
    /\ Goto(p, "delete_user_commit")
    /\ UNCHANGED <<users, nextUserId, nextTaskId, now, req, loaded, view,
                   session>>

\* the bulk DELETE without its owner filter
delete_user_tasks_unfiltered(p) ==
    /\ pc[p] = "delete_user_tasks"
    /\ Ids(tasks) \cap LockedBy(p) = {}
    /\ delset' = [delset EXCEPT ![p] = Ids(tasks)]
    /\ Goto(p, "delete_user_commit")
    /\ UNCHANGED <<users, tasks, nextUserId, nextTaskId, now, req, loaded, view,
                   session>>

\* delete_user: db.query(Task).filter(Task.owner_id == user_id).delete()
\* The DELETE runs inside the transaction: it removes the latest committed
\* rows of that owner, waits for rows another transaction holds locked, and
\* holds the rows it removed locked until the transaction ends.
delete_user_tasks(p) ==
    /\ pc[p] = "delete_user_tasks"
    /\ LET ids == {t.id : t \in {x \in tasks : x.owner_id = req[p].user_id}}
       IN  /\ ids \cap LockedBy(p) = {}
           /\ delset' = [delset EXCEPT ![p] = ids]
    /\ Goto(p, "delete_user_commit")
    /\ UNCHANGED <<users, tasks, nextUserId, nextTaskId, now, req, loaded, view,
                   session>>

\* the bulk DELETE kept when the DELETE of the users row fails
delete_user_commit_norollback(p) ==
    /\ pc[p] = "delete_user_commit"
    /\ LET user_id == req[p].user_id
           referencing == {t \in tasks :
                           t.owner_id = user_id /\ t.id \notin delset[p]}
       IN  IF referencing # {}
           THEN /\ Raise(p, ServerError("IntegrityError"))
                /\ tasks' = {t \in tasks : t.id \notin delset[p]}
                /\ UNCHANGED users
           ELSE /\ users' = users \ ById(users, user_id)
                /\ tasks' = {t \in tasks : t.id \notin delset[p]}
                /\ Raise(p, Ok([message |-> "User deleted successfully"]))
    /\ UNCHANGED <<nextUserId, nextTaskId, now, req, loaded, view, delset, session>>

\* delete_user: db.delete(db_user); db.commit()
\* The flush loads db_user.tasks (relationship without a delete cascade) from
\* the read view, less the rows this transaction removed, to detach them:
\* a row of the view that is gone from the table makes the flush fail.  The
\* DELETE of the users row fails while a tasks row still references it.
delete_user_commit(p) ==
    /\ pc[p] = "delete_user_commit"
    /\ LET user_id == req[p].user_id
           children == {t \in view[p].tasks :
                           t.owner_id = user_id /\ t.id \notin delset[p]}
           referencing == {t \in tasks :
                           t.owner_id = user_id /\ t.id \notin delset[p]}
       IN  IF children # {}
           THEN /\ Raise(p, ServerError(IF \A t \in children : ById(tasks, t.id) = {}
                                        THEN "StaleDataError" ELSE "IntegrityError"))
                /\ UNCHANGED <<users, tasks>>
           ELSE IF referencing # {}
           THEN /\ Raise(p, ServerError("IntegrityError"))
                /\ UNCHANGED <<users, tasks>>
           ELSE /\ users' = users \ ById(users, user_id)
                /\ tasks' = {t \in tasks : t.id \notin delset[p]}
                /\ Raise(p, Ok([message |-> "User deleted successfully"]))
    /\ UNCHANGED <<nextUserId, nextTaskId, now, req, loaded, view, delset, session>>

(* --------------------------- task handlers ----------------------------- *)
\* TaskResponse: the tasks row with its owner's users row inline
TaskResponse(task, utable) == task @@ ("owner" :> First(ById(utable, task.owner_id)))

\* response_model validation: owner is a required UserResponse
TaskOut(task, utable) ==
    IF ById(utable, task.owner_id) = {}
    THEN ServerError("ResponseValidationError")
    ELSE Ok(TaskResponse(task, utable))

TaskListOut(rows, utable) ==
    IF \E i \in 1..Len(rows) : ById(utable, rows[i].owner_id) = {}
    THEN ServerError("ResponseValidationError")
    ELSE Ok(Items([i \in 1..Len(rows) |-> TaskResponse(rows[i], utable)]))

\* create_task: the owner check
create_task(p) ==
    \E data \in TaskCreateData, owner_id \in UserIds :
        /\ Begin(p, [op |-> "create_task", data |-> data, owner_id |-> owner_id])
        /\ IF ById(users, owner_id) = {}
           THEN Raise(p, HTTPException(404, "User not found"))
           ELSE /\ CanInsertTask(p)
                /\ Goto(p, "create_task_commit")
        /\ UNCHANGED <<users, tasks, nextUserId, nextTaskId, now, loaded, view, delset>>

\* create_task: db.add(db_task); db.commit()
create_task_commit(p) ==
    /\ pc[p] = "create_task_commit"
    /\ LET row == NewTask(nextTaskId, TaskDict(req[p].data), req[p].owner_id, now)
       IN  /\ nextTaskId' = nextTaskId + 1
           /\ IF ForeignKeyOk(users, row)
              THEN /\ tasks' = tasks \cup {row}
                   /\ loaded' = [loaded EXCEPT ![p] = row]
                   /\ Goto(p, "create_task_refresh")
              ELSE /\ Raise(p, ServerError("IntegrityError"))
                   /\ UNCHANGED <<tasks, loaded>>
    /\ UNCHANGED <<users, nextUserId, now, req, view, delset, session>>

\* db.refresh(db_task); return db_task (serialised with its owner)
RefreshTask(obj) ==
    IF ById(tasks, obj.id) = {}
    THEN ServerError("InvalidRequestError")
    ELSE TaskOut(First(ById(tasks, obj.id)), users)

create_task_refresh(p) ==
    /\ pc[p] = "create_task_refresh"
    /\ Raise(p, RefreshTask(loaded[p]))
    /\ UNCHANGED <<users, tasks, nextUserId, nextTaskId, now, req, loaded, view,
                   delset, session>>

\* truthiness of an optional query parameter: `if status:`
Truthy(params, f) ==
    /\ f \in DOMAIN params
    /\ params[f] # (IF f = "owner_id" THEN 0 ELSE "")

\* read_tasks: the chain of query.filter(...) calls
FilterTasks(table, params) ==
    {t \in table :
        /\ Truthy(params, "status") => t.status = params.status
        /\ Truthy(params, "priority") => t.priority = params.priority
        /\ Truthy(params, "owner_id") => t.owner_id = params.owner_id}

\* read_tasks: the query, which opens the read view
read_tasks(p) ==
    \E q \in TaskQueries :
        /\ Begin(p, [op |-> "read_tasks", params |-> q.params,
                     skip |-> q.skip, limit |-> q.limit])
        /\ IF q.skip < 0 \/ q.limit < 0
           THEN /\ Raise(p, ServerError("ProgrammingError"))
                /\ UNCHANGED view
           ELSE /\ view' = [view EXCEPT ![p] = [users |-> users, tasks |-> tasks]]
                /\ Goto(p, "read_tasks_response")
        /\ UNCHANGED <<users, tasks, nextUserId, nextTaskId, now, loaded, delset>>

\* read_tasks: the response, each task's owner loaded from the read view
read_tasks_response(p) ==
    /\ pc[p] = "read_tasks_response"
    /\ Raise(p, TaskListOut(Page(Rows(FilterTasks(view[p].tasks, req[p].params)),
                                 req[p].skip, req[p].limit),
                            view[p].users))
    /\ UNCHANGED <<users, tasks, nextUserId, nextTaskId, now, req, loaded, view,
                   delset, session>>

\* read_task: the query, which opens the read view
read_task(p) ==
    \E task_id \in TaskIds :
        /\ Begin(p, [op |-> "read_task", task_id |-> task_id])
        /\ IF ById(tasks, task_id) = {}
           THEN /\ Raise(p, HTTPException(404, "Task not found"))
                /\ UNCHANGED <<loaded, view>>
           ELSE /\ loaded' = [loaded EXCEPT ![p] = First(ById(tasks, task_id))]
                /\ view' = [view EXCEPT ![p] = [users |-> users, tasks |-> tasks]]
                /\ Goto(p, "read_task_response")
        /\ UNCHANGED <<users, tasks, nextUserId, nextTaskId, now, delset>>

\* read_task: the response, the owner loaded from the read view
read_task_response(p) ==
    /\ pc[p] = "read_task_response"
    /\ Raise(p, TaskOut(loaded[p], view[p].users))
    /\ UNCHANGED <<users, tasks, nextUserId, nextTaskId, now, req, loaded, view,
                   delset, session>>

\* update_task: the lookup
update_task(p) ==
    \E task_id \in TaskIds, task_update \in TaskUpdate :
        /\ Begin(p, [op |-> "update_task", task_id |-> task_id,
                     update_data |-> task_update])
        /\ IF ById(tasks, task_id) = {}
           THEN /\ Raise(p, HTTPException(404, "Task not found"))
                /\ UNCHANGED loaded
           ELSE /\ loaded' = [loaded EXCEPT ![p] = First(ById(tasks, task_id))]
                /\ Goto(p, "update_task_commit")
        /\ UNCHANGED <<users, tasks, nextUserId, nextTaskId, now, view, delset>>

TouchNever(data, t) == data

\* update_task: db_task.updated_at = datetime.utcnow()
Touch(data, t) == data @@ ("updated_at" :> t)

\* update_task: the setattr loop, the updated_at stamp and db.commit().
\* The UPDATE waits for a row that another transaction holds locked.
update_task_commit(p) ==
    /\ pc[p] = "update_task_commit"
    /\ LET data == Touch(req[p].update_data, now)
           fields == Changed(loaded[p], data)
           cur == ById(tasks, loaded[p].id)
       IN  IF fields = {}
           THEN /\ Goto(p, "update_task_refresh")
                /\ UNCHANGED tasks
           ELSE /\ loaded[p].id \notin LockedBy(p)
                /\ IF cur = {}
                   THEN /\ Raise(p, ServerError("StaleDataError"))
                        /\ UNCHANGED tasks
                   ELSE /\ tasks' = (tasks \ cur) \cup {SetAttrs(First(cur), data, fields)}
                        /\ Goto(p, "update_task_refresh")
    /\ UNCHANGED <<users, nextUserId, nextTaskId, now, req, loaded, view, delset,
                   session>>

update_task_refresh(p) ==
    /\ pc[p] = "update_task_refresh"
    /\ Raise(p, RefreshTask(loaded[p]))
    /\ UNCHANGED <<users, tasks, nextUserId, nextTaskId, now, req, loaded, view,
                   delset, session>>

\* delete_task: the lookup
delete_task(p) ==
    \E task_id \in TaskIds :
        /\ Begin(p, [op |-> "delete_task", task_id |-> task_id])
        /\ IF ById(tasks, task_id) = {}
           THEN /\ Raise(p, HTTPException(404, "Task not found"))
                /\ UNCHANGED loaded
           ELSE /\ loaded' = [loaded EXCEPT ![p] = First(ById(tasks, task_id))]
                /\ Goto(p, "delete_task_commit")
        /\ UNCHANGED <<users, tasks, nextUserId, nextTaskId, now, view, delset>>

\* delete_task: db.delete(db_task); db.commit().  The DELETE waits for a row
\* that another transaction holds locked; matching no row is only a warning.
delete_task_commit(p) ==
    /\ pc[p] = "delete_task_commit"
    /\ loaded[p].id \notin LockedBy(p)
    /\ tasks' = tasks \ ById(tasks, loaded[p].id)
    /\ Raise(p, Ok([message |-> "Task deleted successfully"]))
    /\ UNCHANGED <<users, nextUserId, nextTaskId, now, req, loaded, view, delset,
                   session>>

\* read_user_tasks: the user lookup, which opens the read view
read_user_tasks(p) ==
    \E user_id \in UserIds :
        /\ Begin(p, [op |-> "read_user_tasks", user_id |-> user_id])
        /\ IF ById(users, user_id) = {}
           THEN /\ Raise(p, HTTPException(404, "User not found"))
                /\ UNCHANGED view
           ELSE /\ view' = [view EXCEPT ![p] = [users |-> users, tasks |-> tasks]]
                /\ Goto(p, "read_user_tasks_query")
        /\ UNCHANGED <<users, tasks, nextUserId, nextTaskId, now, loaded, delset>>

\* read_user_tasks: the tasks query and the response, from the read view
read_user_tasks_query(p) ==
    /\ pc[p] = "read_user_tasks_query"
    /\ Raise(p, TaskListOut(Rows({t \in view[p].tasks : t.owner_id = req[p].user_id}),
                            view[p].users))
    /\ UNCHANGED <<users, tasks, nextUserId, nextTaskId, now, req, loaded, view,
                   delset, session>>

\* get_stats: the first count, which opens the read view
get_stats(p) ==
    /\ Begin(p, [op |-> "get_stats"])
    /\ view' = [view EXCEPT ![p] = [users |-> users, tasks |-> tasks]]
    /\ Goto(p, "get_stats_counts")
    /\ UNCHANGED <<users, tasks, nextUserId, nextTaskId, now, loaded, delset>>

StatsPendingTwice(v) ==
    [total_users |-> Cardinality(v.users),
     total_tasks |-> Cardinality(v.tasks),
     pending_tasks |-> Cardinality({t \in v.tasks : t.status = "pending"}),
     completed_tasks |-> Cardinality({t \in v.tasks : t.status = "pending"})]

\* the four count() queries
Stats(v) ==
    [total_users |-> Cardinality(v.users),
     total_tasks |-> Cardinality(v.tasks),
     pending_tasks |-> Cardinality({t \in v.tasks : t.status = "pending"}),
     completed_tasks |-> Cardinality({t \in v.tasks : t.status = "completed"})]

\* get_stats: the counts, all read from the read view
get_stats_counts(p) ==
    /\ pc[p] = "get_stats_counts"
    /\ Raise(p, Ok(Stats(view[p])))
    /\ UNCHANGED <<users, tasks, nextUserId, nextTaskId, now, req, loaded, view,
                   delset, session>>

Next ==
    \/ Tick
    \/ \E p \in Procs :
        \/ get_db_close(p)
        \/ create_user(p)
        \/ create_user_commit(p)
        \/ create_user_refresh(p)
        \/ read_users(p)
        \/ read_user(p)
        \/ update_user(p)
        \/ update_user_commit(p)
        \/ update_user_refresh(p)
        \/ delete_user(p)
        \/ delete_user_tasks(p)
        \/ delete_user_commit(p)
        \/ create_task(p)
        \/ create_task_commit(p)
        \/ create_task_refresh(p)
        \/ read_tasks(p)
        \/ read_tasks_response(p)
        \/ read_task(p)
        \/ read_task_response(p)
        \/ update_task(p)
        \/ update_task_commit(p)
        \/ update_task_refresh(p)
        \/ delete_task(p)
        \/ delete_task_commit(p)
        \/ read_user_tasks(p)
        \/ read_user_tasks_query(p)
        \/ get_stats(p)
        \/ get_stats_counts(p)

Spec == Init /\ [][Next]_vars

\* the steps of a request that has arrived: the worker thread that serves it
\* runs its handler to the end and then the rest of get_db
Serve(p) ==
    \/ get_db_close(p)
    \/ create_user_commit(p)
    \/ create_user_refresh(p)
    \/ update_user_commit(p)
    \/ update_user_refresh(p)
    \/ delete_user_tasks(p)
    \/ delete_user_commit(p)
    \/ create_task_commit(p)
    \/ create_task_refresh(p)
    \/ read_tasks_response(p)
    \/ read_task_response(p)
    \/ update_task_commit(p)
    \/ update_task_refresh(p)
    \/ delete_task_commit(p)
    \/ read_user_tasks_query(p)
    \/ get_stats_counts(p)

\* requests arrive or not, and the clock ticks or not; a request that has
\* arrived is served
FairSpec == Spec /\ \A p \in Procs : WF_vars(Serve(p))

(* ------------------------- steps of a request -------------------------- *)
\* request p takes the handler step labelled l
Steps(p, l) == pc[p] = l /\ pc'[p] # l

\* request p arrives at handler op and takes its first step
Starts(p, op) == pc[p] = "idle" /\ pc'[p] # "idle" /\ req'[p].op = op

\* request p, of handler op, has its response, with this status
Finished(p, op, status) ==
    pc[p] = "done" /\ req[p].op = op /\ resp[p].status = status

(* ---------------------------- properties ------------------------------- *)
\* C1: the cascade of delete_user is atomic to every reader.  While a
\* delete_user request is between its bulk DELETE of the tasks and its commit,
\* the committed table still holds the user and every task the DELETE
\* removed; every read view a request holds, and the committed tables a new
\* reader would see, hold the owner of each task they hold; and no reader
\* ends on a task whose owner it could not load.
CascadeAtomicToReaders ==
    /\ \A q \in Procs :
        (pc[q] = "delete_user_commit" /\ delset[q] # {}) =>
            /\ req[q].user_id \in Ids(users)
            /\ delset[q] \subseteq Ids(tasks)
    /\ \A p \in Procs :
        /\ \A t \in view[p].tasks : t.owner_id \in Ids(view[p].users)
        /\ resp[p].status = 500 => resp[p].body.detail # "ResponseValidationError"
        /\ (Finished(p, "read_user_tasks", 200) \/ Finished(p, "read_tasks", 200)) =>
              \A i \in 1..Len(resp[p].body.items) :
                  /\ resp[p].body.items[i].owner.id = resp[p].body.items[i].owner_id
                  /\ resp[p].body.items[i].owner \in view[p].users
        /\ Finished(p, "read_task", 200) => resp[p].body.owner \in view[p].users
    /\ \A t \in tasks : t.owner_id \in Ids(users)

\* a reader has listed the tasks of a user while a delete_user of that user
\* had removed them in its open transaction
CascadeAtomicWitness ==
    \E p, q \in Procs :
        /\ pc[q] = "delete_user_commit"
        /\ delset[q] # {}
        /\ Finished(p, "read_user_tasks", 200)
        /\ req[p].user_id = req[q].user_id
        /\ {resp[p].body.items[i].id : i \in 1..Len(resp[p].body.items)} = delset[q]

\* C2: every stored task's owner_id is the id of a stored user.
ReferentialIntegrity ==
    \A t \in tasks : \E u \in users : u.id = t.owner_id

\* a create_task passed its owner check, a delete_user of that owner
\* committed, and the INSERT was refused
ReferentialIntegrityWitness ==
    \E p \in Procs :
        /\ Finished(p, "create_task", 500)
        /\ resp[p].body.detail = "IntegrityError"
        /\ req[p].owner_id \notin Ids(users)

\* C3: no two stored users share a username or an email (or an id).
UsernameEmailUnique ==
    \A u, v \in users :
        u # v => /\ u.id # v.id
                 /\ u.username # v.username
                 /\ u.email # v.email

\* an update_user that set a username or email another user holds was refused
\* by the table's constraint, with two users stored
UsernameEmailUniqueWitness ==
    \E p \in Procs :
        /\ Finished(p, "update_user", 500)
        /\ resp[p].body.detail = "IntegrityError"
        /\ Cardinality(users) = 2
        /\ \E f \in DOMAIN req[p].update_data :
              \E u \in users : u.id # req[p].user_id /\ u[f] = req[p].update_data[f]

\* C4: create_user answers 400 and leaves the tables as they are when its
\* existence check finds a stored user with the same username or the same
\* email; its INSERT, when no stored user has the same username or email,
\* adds exactly one users row with a fresh id, the request's fields and
\* is_active = TRUE, and otherwise adds nothing; no other step of the
\* request touches the tables.
CreateUserContract ==
    [][\A p \in Procs :
        /\ Starts(p, "create_user") =>
            /\ UNCHANGED store
            /\ IF \E u \in users : u.username = req'[p].user.username
               THEN pc'[p] = "done" /\ resp'[p].status = 400
               ELSE IF \E u \in users : u.email = req'[p].user.email
               THEN pc'[p] = "done" /\ resp'[p].status = 400
               ELSE pc'[p] # "done"
        /\ Steps(p, "create_user_commit") =>
            /\ tasks' = tasks
            /\ IF \E u \in users : \/ u.username = req[p].user.username
                                   \/ u.email = req[p].user.email
               THEN users' = users /\ pc'[p] = "done" /\ resp'[p].status # 200
               ELSE \E row \in users' :
                       /\ row.id \notin Ids(users)
                       /\ users' = users \cup {row}
                       /\ row.username = req[p].user.username
                       /\ row.email = req[p].user.email
                       /\ row.full_name = req[p].user.full_name
                       /\ row.is_active = TRUE
        /\ Steps(p, "create_user_refresh") => UNCHANGED store
      ]_vars

\* a create_user was refused with 400 for its email alone, and another one
\* has stored its user
CreateUserWitness ==
    \E p, q \in Procs :
        /\ Finished(p, "create_user", 400)
        /\ \A u \in users : u.username # req[p].user.username
        /\ Finished(q, "create_user", 200)
        /\ resp[q].body \in users
        /\ resp[q].body.is_active

\* C5: create_task answers 404 and leaves the tables as they are when its
\* owner check finds no stored user with id owner_id; its INSERT, when that
\* user is stored, adds exactly one tasks row with that owner_id, the fields
\* of the request, status "pending" and priority "medium" where the request
\* omitted them, and otherwise adds nothing.
CreateTaskContract ==
    [][\A p \in Procs :
        /\ Starts(p, "create_task") =>
            /\ UNCHANGED store
            /\ IF req'[p].owner_id \in Ids(users)
               THEN pc'[p] # "done"
               ELSE pc'[p] = "done" /\ resp'[p].status = 404
        /\ Steps(p, "create_task_commit") =>
            /\ users' = users
            /\ IF req[p].owner_id \in Ids(users)
               THEN \E row \in tasks' :
                       /\ row.id \notin Ids(tasks)
                       /\ tasks' = tasks \cup {row}
                       /\ row.owner_id = req[p].owner_id
                       /\ \A f \in DOMAIN req[p].data : row[f] = req[p].data[f]
                       /\ "status" \notin DOMAIN req[p].data => row.status = "pending"
                       /\ "priority" \notin DOMAIN req[p].data => row.priority = "medium"
               ELSE tasks' = tasks /\ pc'[p] = "done" /\ resp'[p].status # 200
        /\ Steps(p, "create_task_refresh") => UNCHANGED store
      ]_vars

\* a create_task for a missing owner was refused with 404, and one that
\* omitted status and priority has stored its task with the defaults
CreateTaskWitness ==
    \E p, q \in Procs :
        /\ Finished(p, "create_task", 404)
        /\ req[p].owner_id \notin Ids(users)
        /\ Finished(q, "create_task", 200)
        /\ DOMAIN req[q].data = {"title"}
        /\ \E t \in tasks : /\ t.id = resp[q].body.id
                            /\ t.owner_id = req[q].owner_id
                            /\ t.status = "pending"
                            /\ t.priority = "medium"

\* C6: the UPDATE of update_user and of update_task leaves every other row
\* of both tables as it was, keeps the set of stored ids, and in the row it
\* writes keeps every column that the request did not set (for a task: other
\* than updated_at), among them id, created_at and owner_id; with no field
\* set the users row is left as it was; no other step of an update touches
\* the tables.
PartialUpdateFrame ==
    [][\A p \in Procs :
        /\ Steps(p, "update_user_commit") =>
            /\ tasks' = tasks
            /\ Ids(users') = Ids(users)
            /\ \A u \in users : u.id # req[p].user_id => u \in users'
            /\ \A u \in users, v \in users' : (u.id = req[p].user_id /\ v.id = u.id) =>
                  /\ \A f \in UserFields \ DOMAIN req[p].update_data : v[f] = u[f]
                  /\ v.id = u.id /\ v.created_at = u.created_at
            /\ DOMAIN req[p].update_data = {} => users' = users
        /\ Steps(p, "update_task_commit") =>
            /\ users' = users
            /\ Ids(tasks') = Ids(tasks)
            /\ \A t \in tasks : t.id # req[p].task_id => t \in tasks'
            /\ \A t \in tasks, v \in tasks' : (t.id = req[p].task_id /\ v.id = t.id) =>
                  /\ \A f \in TaskFields \ (DOMAIN req[p].update_data \cup {"updated_at"}) :
                        v[f] = t[f]
                  /\ v.id = t.id /\ v.created_at = t.created_at /\ v.owner_id = t.owner_id
        /\ \/ Starts(p, "update_user") \/ Starts(p, "update_task")
           \/ Steps(p, "update_user_refresh") \/ Steps(p, "update_task_refresh")
           => UNCHANGED store
      ]_vars

\* an update_task that set only the status has written a task whose
\* description an earlier update had set
PartialUpdateWitness ==
    \E p \in Procs :
        /\ pc[p] = "update_task_refresh"
        /\ DOMAIN req[p].update_data = {"status"}
        /\ loaded[p].status = "pending"
        /\ \E t \in tasks : /\ t.id = req[p].task_id
                            /\ t.status = "completed"
                            /\ t.description = "text"
                            /\ t.title = loaded[p].title

\* C7: the UPDATE of update_task stamps the row with the current time
\* whatever fields the request set, and every stored task has
\* updated_at >= created_at.
UpdatedAtStamped ==
    /\ [](\A t \in tasks : t.updated_at >= t.created_at)
    /\ [][\A p \in Procs :
            (Steps(p, "update_task_commit") /\ pc'[p] = "update_task_refresh") =>
                \A t \in tasks' : t.id = req[p].task_id => t.updated_at = now
         ]_vars

\* an update_task with no field set has advanced a task's updated_at past its
\* created_at
UpdatedAtWitness ==
    \E p \in Procs :
        /\ Finished(p, "update_task", 200)
        /\ DOMAIN req[p].update_data = {}
        /\ \E t \in tasks : /\ t.id = req[p].task_id
                            /\ t.updated_at > t.created_at
                            /\ t.updated_at = now

\* C8: a read_tasks on the default page returns exactly the tasks of its
\* read view that equal every filter value the request supplied.
SuppliedFilters(table, params) ==
    {t \in table : \A f \in DOMAIN params : t[f] = params[f]}

ListTasksExactFilter ==
    \A p \in Procs :
        (/\ Finished(p, "read_tasks", 200)
         /\ req[p].skip = 0
         /\ req[p].limit = DefaultLimit) =>
            {resp[p].body.items[i].id : i \in 1..Len(resp[p].body.items)}
                = Ids(SuppliedFilters(view[p].tasks, req[p].params))

\* C9: the commit of a successful delete_user removes the users row with that
\* id and exactly the tasks rows with that owner_id, and nothing else; once it
\* has succeeded, a read_user of that id and a read_task of any task it
\* removed answer 404.
DeleteUserCascade ==
    [][\A q \in Procs :
        /\ (Steps(q, "delete_user_commit") /\ resp'[q].status = 200) =>
            /\ users' = {u \in users : u.id # req[q].user_id}
            /\ tasks' = {t \in tasks : t.owner_id # req[q].user_id}
            /\ Ids(tasks) \ Ids(tasks') = delset[q]
        /\ Finished(q, "delete_user", 200) =>
            \A p \in Procs :
                /\ (Starts(p, "read_user") /\ req'[p].user_id = req[q].user_id) =>
                      pc'[p] = "done" /\ resp'[p].status = 404
                /\ (Starts(p, "read_task") /\ req'[p].task_id \in delset[q]) =>
                      pc'[p] = "done" /\ resp'[p].status = 404
      ]_vars

\* a delete_user has removed a user and its task, a read_task of that task
\* answered 404, and another user and its task are still stored
DeleteUserWitness ==
    \E p, q \in Procs :
        /\ Finished(q, "delete_user", 200)
        /\ delset[q] # {}
        /\ Finished(p, "read_task", 404)
        /\ req[p].task_id \in delset[q]
        /\ \E u \in users : \E t \in tasks : t.owner_id = u.id

\* C10: get_stats answers the number of users, of tasks, of tasks with
\* status "pending" and of tasks with status "completed" of the tables as its
\* first query found them, and no step of it touches the tables.
GetStatsCounts ==
    [][\A p \in Procs :
        /\ Starts(p, "get_stats") =>
            /\ UNCHANGED store
            /\ view'[p].users = users /\ view'[p].tasks = tasks
        /\ Steps(p, "get_stats_counts") =>
            /\ UNCHANGED store
            /\ pc'[p] = "done" /\ resp'[p].status = 200
            /\ LET v == view[p]
                   b == resp'[p].body
               IN  /\ b.total_users = Cardinality(Ids(v.users))
                   /\ b.total_tasks = Cardinality(Ids(v.tasks))
                   /\ b.pending_tasks
                        = Cardinality(Ids(v.tasks) \ {t.id : t \in {x \in v.tasks : x.status # "pending"}})
                   /\ b.completed_tasks
                        = Cardinality(Ids(v.tasks) \ {t.id : t \in {x \in v.tasks : x.status # "completed"}})
                   /\ b.pending_tasks + b.completed_tasks <= b.total_tasks
      ]_vars

\* get_stats has counted two users and two tasks, one pending and one
\* completed, in the tables as they are stored
GetStatsWitness ==
    \E p \in Procs :
        /\ Finished(p, "get_stats", 200)
        /\ view[p].users = users /\ view[p].tasks = tasks
        /\ resp[p].body = [total_users |-> 2, total_tasks |-> 2,
                           pending_tasks |-> 1, completed_tasks |-> 1]

\* C11: a create_user that answers 200 answers a stored users row whose id no
\* other stored row has, and a read_user of that id that arrives next, with
\* no request in between, answers 200 with that row: the username, email and
\* full_name the create_user was given.
CreatedUserRetrievable ==
    [][\A q \in Procs :
        /\ (Steps(q, "create_user_refresh") /\ resp'[q].status = 200) =>
            /\ resp'[q].body \in users
            /\ \A u \in users : u # resp'[q].body => u.id # resp'[q].body.id
        /\ \A p \in Procs :
            (/\ Finished(q, "create_user", 200)
             /\ Starts(p, "read_user")
             /\ req'[p].user_id = resp[q].body.id) =>
                /\ pc'[p] = "done"
                /\ resp'[p].status = 200
                /\ resp'[p].body = resp[q].body
                /\ resp'[p].body.username = req[q].user.username
                /\ resp'[p].body.email = req[q].user.email
                /\ resp'[p].body.full_name = req[q].user.full_name
      ]_vars

\* a create_user has answered a second user, and a read_user of the id it
\* answered has answered the same row
CreatedUserWitness ==
    \E p, q \in Procs :
        /\ Finished(q, "create_user", 200)
        /\ Finished(p, "read_user", 200)
        /\ req[p].user_id = resp[q].body.id
        /\ resp[p].body = resp[q].body
        /\ resp[p].body.username = req[q].user.username
        /\ Cardinality(users) = 2

\* the handler steps that follow a successful commit
RefreshSteps == {"create_user_refresh", "update_user_refresh",
                 "create_task_refresh", "update_task_refresh"}

\* the id that the lookup of a request looks for, and the table it looks in
LookupMisses(r, utable, ttable) ==
    IF r.op \in {"read_user", "update_user", "delete_user", "read_user_tasks"}
    THEN r.user_id \notin Ids(utable)
    ELSE r.task_id \notin Ids(ttable)

\* C12: read_user, update_user, delete_user, read_user_tasks, read_task,
\* update_task and delete_task answer 404 exactly when their lookup finds no
\* row with the given id, and at no later step; a step that ends a request
\* in an error (400, 404, or a failure of its commit) leaves both tables as
\* they are and is taken before any write of the request, every write of a
\* request being a commit step that is followed by the refresh or the 200
\* answer; and a request that failed to reload the row it had written finds
\* that row no longer stored.
NoPartialEffect ==
    /\ [](\A p \in Procs :
            (/\ pc[p] = "done"
             /\ resp[p].status = 500
             /\ resp[p].body.detail = "InvalidRequestError") =>
                IF req[p].op \in {"create_user", "update_user"}
                THEN loaded[p].id \notin Ids(users)
                ELSE loaded[p].id \notin Ids(tasks))
    /\ [][\A p \in Procs :
            /\ \A op \in {"read_user", "update_user", "delete_user", "read_user_tasks",
                           "read_task", "update_task", "delete_task"} :
                  Starts(p, op) =>
                      /\ resp'[p].status = 404 <=> LookupMisses(req'[p], users, tasks)
                      /\ resp'[p].status \in {0, 200, 404}
            /\ (resp'[p].status = 404 /\ resp[p].status # 404) => pc[p] = "idle"
            /\ (/\ pc[p] # "done"
                /\ pc'[p] = "done"
                /\ resp'[p].status >= 400
                /\ resp'[p].body.detail # "InvalidRequestError") =>
                    /\ UNCHANGED store
                    /\ pc[p] \notin RefreshSteps
            /\ (pc'[p] # pc[p] /\ store' # store) =>
                    /\ pc[p] \in {"create_user_commit", "update_user_commit",
                                  "delete_user_commit", "create_task_commit",
                                  "update_task_commit", "delete_task_commit"}
                    /\ \/ pc'[p] \in RefreshSteps
                       \/ pc'[p] = "done" /\ resp'[p].status = 200
         ]_vars

\* a delete_user whose DELETE of the users row was refused, after its bulk
\* DELETE had removed tasks, has left those tasks and the user stored
NoPartialEffectWitness ==
    \E p \in Procs :
        /\ Finished(p, "delete_user", 500)
        /\ resp[p].body.detail = "IntegrityError"
        /\ delset[p] # {}
        /\ delset[p] \subseteq Ids(tasks)
        /\ req[p].user_id \in Ids(users)

\* C13: a create_user or update_user whose write the UNIQUE constraint of
\* users refused ends with a client-facing status (4xx), not with the 500 of
\* an exception that no handler caught.
ConstraintViolationMapped ==
    \A p \in Procs :
        (/\ pc[p] = "done"
         /\ req[p].op \in {"create_user", "update_user"}
         /\ resp[p].status = 500) =>
            resp[p].body.detail # "IntegrityError"

\* C14: the session of a request is open from the arrival of the request
\* until get_db closes it, and closed otherwise; it is opened only by the
\* arrival and closed only by get_db after the handler has returned or
\* raised, once; the session of a request, and what it holds, changes only in
\* steps of that request; and every session that is open is eventually
\* closed.
SessionReleased ==
    /\ [](\A p \in Procs : session[p] = "closed" <=> pc[p] \in {"idle", "closed"})
    /\ [][\A p \in Procs :
            /\ (session[p] = "closed" /\ session'[p] = "open") => pc[p] = "idle"
            /\ (session[p] = "open" /\ session'[p] = "closed") =>
                    pc[p] = "done" /\ pc'[p] = "closed"
            /\ pc[p] = "closed" => pc'[p] = "closed" /\ session'[p] = "closed"
            /\ pc'[p] = pc[p] =>
                    /\ session'[p] = session[p]
                    /\ loaded'[p] = loaded[p]
                    /\ view'[p] = view[p]
                    /\ delset'[p] = delset[p]
         ]_vars
    /\ \A p \in Procs : (session[p] = "open") ~> (session[p] = "closed")

\* two create_user requests found the tables empty, the INSERT of one was
\* refused (its id was used up, no second user is stored), and the sessions
\* of both are closed
SessionReleasedWitness ==
    /\ \A p \in Procs : pc[p] = "closed" /\ session[p] = "closed"
    /\ nextUserId = 3
    /\ Cardinality(users) = 1
    /\ nextTaskId = 1

\* C15: read_users answers the stored users in ascending id order, less the
\* first skip of them and at most limit of them, and rejects a negative skip
\* or a negative limit with a client error instead of handing it to the
\* store.
ListUsersPaged ==
    [][\A p \in Procs :
        Starts(p, "read_users") =>
            /\ pc'[p] = "done"
            /\ IF req'[p].skip < 0 \/ req'[p].limit < 0
               THEN resp'[p].status \in 400..499
               ELSE /\ resp'[p].status = 200
                    /\ LET items == resp'[p].body.items
                           skip == req'[p].skip
                           limit == req'[p].limit
                       IN  /\ \A i \in 1..Len(items) : items[i] \in users
                           /\ \A i, j \in 1..Len(items) : i < j => items[i].id < items[j].id
                           /\ \A u \in users :
                                 (\E i \in 1..Len(items) : items[i] = u) <=>
                                     LET before == Cardinality({v \in users : v.id < u.id})
                                     IN  skip <= before /\ before < skip + limit
      ]_vars
====
